---- MODULE Spec2Model ----
(***************************************************************************)
(* The hash engine of redis-oxide (src/src/hashes.rs): one container of    *)
(* hashes behind a reader/writer lock, and hash_interact, which executes   *)
(* one HashOps command against it.  Every client is a process that calls   *)
(* hash_interact; a call takes the lock, runs the match arm of its         *)
(* command and returns a ReturnValue.                                      *)
(***************************************************************************)
EXTENDS Integers, Sequences, FiniteSets, TLC

\* ------------------------------------------------------------------ bounds

\* Number of clients that may be inside hash_interact at the same time.
NumProcs == 2
\* Longest argument list of HMGet, HDel and HMSet.
MaxArgs == 2
\* HIncrBy is only issued while the counter stays within -MaxAbs .. MaxAbs.
MaxAbs == 2

Procs == 1 .. NumProcs

\* Key and Value are byte vectors (types.rs): sequences of numbers 0..255.
K1 == <<107>>
F1 == <<102>>
F2 == <<103>>
Keys == {K1}
Fields == {F1, F2}
\* "1", "a", and one byte that is not UTF-8.
Vals == {<<49>>, <<97>>, <<255>>}
IncrCounts == {-1, 1}

\* ------------------------------------------------------------ ReturnValue

Ok == [t |-> "Ok"]
Nil == [t |-> "Nil"]
StringRes(v) == [t |-> "StringRes", v |-> v]
IntRes(n) == [t |-> "IntRes", n |-> n]
Error(m) == [t |-> "Error", m |-> m]
MultiStringRes(l) == [t |-> "MultiStringRes", l |-> l]
Array(l) == [t |-> "Array", l |-> l]
NoReturn == [t |-> "None"]

\* b"Bad Type!"
BadType == <<66, 97, 100, 32, 84, 121, 112, 101, 33>>
ops_error(m) == Error(m)

\* ------------------------------------------------- text <-> integer (std)

IsDigit(b) == b >= 48 /\ b <= 57

\* Number of leading bytes of v that form one well-formed UTF-8 scalar
\* value starting at position i, or 0 when there is none.
Utf8SeqLen(v, i) ==
  LET n == Len(v)
      b == v[i]
      c(j, lo, hi) == i + j <= n /\ v[i + j] >= lo /\ v[i + j] <= hi
  IN  IF b <= 127 THEN 1
      ELSE IF b >= 194 /\ b <= 223 THEN (IF c(1, 128, 191) THEN 2 ELSE 0)
      ELSE IF b = 224 THEN (IF c(1, 160, 191) /\ c(2, 128, 191) THEN 3 ELSE 0)
      ELSE IF b = 237 THEN (IF c(1, 128, 159) /\ c(2, 128, 191) THEN 3 ELSE 0)
      ELSE IF b >= 225 /\ b <= 239
           THEN (IF c(1, 128, 191) /\ c(2, 128, 191) THEN 3 ELSE 0)
      ELSE IF b = 240
           THEN (IF c(1, 144, 191) /\ c(2, 128, 191) /\ c(3, 128, 191) THEN 4 ELSE 0)
      ELSE IF b >= 241 /\ b <= 243
           THEN (IF c(1, 128, 191) /\ c(2, 128, 191) /\ c(3, 128, 191) THEN 4 ELSE 0)
      ELSE IF b = 244
           THEN (IF c(1, 128, 143) /\ c(2, 128, 191) /\ c(3, 128, 191) THEN 4 ELSE 0)
      ELSE 0

RECURSIVE Utf8From(_, _)
Utf8From(v, i) ==
  IF i > Len(v) THEN TRUE
  ELSE LET k == Utf8SeqLen(v, i)
       IN  k > 0 /\ Utf8From(v, i + k)

\* std::str::from_utf8(value).is_ok()
from_utf8_ok(v) == Utf8From(v, 1)

RECURSIVE DigitsValue(_)
DigitsValue(d) ==
  IF d = <<>> THEN 0
  ELSE 10 * DigitsValue(SubSeq(d, 1, Len(d) - 1)) + (d[Len(d)] - 48)

RECURSIVE StripZeros(_)
StripZeros(d) == IF Len(d) > 1 /\ d[1] = 48 THEN StripZeros(Tail(d)) ELSE d

\* The digits of i64::MAX = 9223372036854775807 and of -i64::MIN.
I64MaxDigits == <<57, 50, 50, 51, 51, 55, 50, 48, 51, 54, 56, 53, 52, 55, 55, 53, 56, 48, 55>>
I64MinDigits == <<57, 50, 50, 51, 51, 55, 50, 48, 51, 54, 56, 53, 52, 55, 55, 53, 56, 48, 56>>

RECURSIVE DigitsLeq(_, _)
DigitsLeq(a, b) ==
  IF a = <<>> THEN TRUE
  ELSE IF a[1] < b[1] THEN TRUE
  ELSE IF a[1] > b[1] THEN FALSE
  ELSE DigitsLeq(Tail(a), Tail(b))

\* Whether the digit string d, read as a magnitude, fits the limit lim.
FitsI64(d, lim) ==
  LET s == StripZeros(d)
  IN  Len(s) < Len(lim) \/ (Len(s) = Len(lim) /\ DigitsLeq(s, lim))

ParseErr == [ok |-> FALSE, val |-> 0]

\* str::parse::<i64>(): an optional '+' or '-', then one or more ASCII
\* digits; anything else, and a value outside i64, is an Err.
parse_i64(s) ==
  IF s = <<>> THEN ParseErr
  ELSE LET neg == s[1] = 45
           signed == s[1] = 45 \/ s[1] = 43
           d == IF signed THEN Tail(s) ELSE s
       IN  IF d = <<>> THEN ParseErr
           ELSE IF \E i \in 1 .. Len(d) : ~IsDigit(d[i]) THEN ParseErr
           ELSE IF ~FitsI64(d, IF neg THEN I64MinDigits ELSE I64MaxDigits) THEN ParseErr
           ELSE [ok |-> TRUE, val |-> IF neg THEN 0 - DigitsValue(d) ELSE DigitsValue(d)]

RECURSIVE NatToString(_)
NatToString(n) ==
  IF n < 10 THEN <<48 + n>>
  ELSE Append(NatToString(n \div 10), 48 + (n % 10))

\* i64::to_string() turned into a Value (Value::from(String)).
to_string(n) == IF n < 0 THEN <<45>> \o NatToString(0 - n) ELSE NatToString(n)

\* ------------------------------------------------------------- HashOps

\* Argument lists of the commands that take a Vec.
FieldLists == UNION {[1 .. n -> Fields] : n \in 0 .. MaxArgs}
PairLists == UNION {[1 .. n -> Fields \X Vals] : n \in 0 .. MaxArgs}

\* op_variants! { HashOps, ... }: every well-typed command over the bounded
\* keys, fields and values.
HashOps ==
  {[t |-> "HGet", key |-> k, field |-> f] : k \in Keys, f \in Fields}
    \cup {[t |-> "HSet", key |-> k, field |-> f, value |-> v] :
            k \in Keys, f \in Fields, v \in Vals}
    \cup {[t |-> "HExists", key |-> k, field |-> f] : k \in Keys, f \in Fields}
    \cup {[t |-> "HGetAll", key |-> k] : k \in Keys}
    \cup {[t |-> "HMGet", key |-> k, fields |-> fs] : k \in Keys, fs \in FieldLists}
    \cup {[t |-> "HKeys", key |-> k] : k \in Keys}
    \cup {[t |-> "HMSet", key |-> k, key_values |-> kvs] : k \in Keys, kvs \in PairLists}
    \cup {[t |-> "HIncrBy", key |-> k, field |-> f, count |-> c] :
            k \in Keys, f \in Fields, c \in IncrCounts}
    \cup {[t |-> "HLen", key |-> k] : k \in Keys}
    \cup {[t |-> "HDel", key |-> k, fields |-> fs] : k \in Keys, fs \in FieldLists}
    \cup {[t |-> "HVals", key |-> k] : k \in Keys}
    \cup {[t |-> "HStrLen", key |-> k, field |-> f] : k \in Keys, f \in Fields}
    \cup {[t |-> "HSetNX", key |-> k, field |-> f, value |-> v] :
            k \in Keys, f \in Fields, v \in Vals}

NoOp == [t |-> "None"]

\* ------------------------------------------------------------------ state

VARIABLES
  hashes,      \* state.hashes: key -> (field -> value), only for present keys
  lock,        \* the RwLock around it: the writer (0: none) and the readers
  pc,          \* per client: idle, locked, loaded, done, panicked
  op,          \* per client: the command of the call in progress
  ret,         \* per client: the ReturnValue of the finished call
  curr_value,  \* per client: HIncrBy's local curr_value
  pre,         \* per client: the container and lastw when the lock was taken
  lastw,       \* the last command that wrote the container, and its result
  rv,          \* the wire value handed to translate
  translated   \* what translate returned for it

hvars == <<hashes, lock, pc, op, ret, curr_value, pre, lastw>>
\* The translator's variables: hash_interact never touches them.
tvars == <<rv, translated>>
vars == <<hashes, lock, pc, op, ret, curr_value, pre, lastw, rv, translated>>

\* No wire value received, nothing translated.
NoWire == [t |-> "None"]
NotTranslated == [t |-> "None"]

\* pre and lastw are history variables: no arm reads them.  They record
\* what a call found and which write came last, so that properties about
\* one command following another can be stated over a single state.
EmptyHash == [f \in {} |-> <<>>]
EmptyHashes == [k \in {} |-> EmptyHash]
NoWrite == [cmd |-> NoOp, ret |-> NoReturn, fresh |-> FALSE]
NoPre == [hashes |-> EmptyHashes, lastw |-> NoWrite]

\* HashMap operations.
contains_key(m, f) == f \in DOMAIN m
insert(m, f, v) == [x \in DOMAIN m \cup {f} |-> IF x = f THEN v ELSE m[x]]
remove(m, f) == [x \in DOMAIN m \ {f} |-> m[x]]
\* hash_lock.entry(key).or_default(): the container with key materialized.
or_default(h, key) == IF key \in DOMAIN h THEN h ELSE insert(h, key, EmptyHash)

\* ------------------------------------------------------------------- lock

\* make_reader!(hashes, read_hashes): read_hashes! takes state.hashes.read().
read_hashes == "read"
\* make_writer!(hashes, write_hashes): write_hashes! takes state.hashes.write().
write_hashes == "write"

LockKindReadIncr(cmd) ==
  CASE cmd.t \in {"HSet", "HMSet", "HSetNX"} -> "write"
    [] cmd.t = "HDel" -> write_hashes
    [] OTHER -> read_hashes

\* The lock each match arm of hash_interact takes.
LockKind(cmd) ==
  CASE cmd.t \in {"HSet", "HMSet", "HIncrBy", "HSetNX"} -> "write"
    [] cmd.t = "HDel" -> write_hashes
    [] OTHER -> read_hashes

\* RwLock: a writer excludes everyone, readers exclude only writers.
CanAcquire(kind) ==
  IF kind = "write" THEN lock.writer = 0 /\ lock.readers = {} ELSE lock.writer = 0
Acquired(p, kind) ==
  IF kind = "write" THEN [lock EXCEPT !.writer = p]
  ELSE [lock EXCEPT !.readers = @ \cup {p}]
\* Dropping the guard.
Released(p) ==
  [writer |-> IF lock.writer = p THEN 0 ELSE lock.writer, readers |-> lock.readers \ {p}]

Init ==
  /\ hashes = EmptyHashes
  /\ lock = [writer |-> 0, readers |-> {}]
  /\ pc = [p \in Procs |-> "idle"]
  /\ op = [p \in Procs |-> NoOp]
  /\ ret = [p \in Procs |-> NoReturn]
  /\ curr_value = [p \in Procs |-> 0]
  /\ pre = [p \in Procs |-> NoPre]
  /\ lastw = NoWrite
  /\ rv = NoWire
  /\ translated = NotTranslated

\* What HIncrBy would store: used only to keep the counters bounded.
IncrTarget(h, cmd) ==
  LET cur == IF cmd.key \in DOMAIN h /\ cmd.field \in DOMAIN h[cmd.key]
                  /\ from_utf8_ok(h[cmd.key][cmd.field])
             THEN parse_i64(h[cmd.key][cmd.field]).val ELSE 0
  IN  cur + cmd.count
InBounds(cmd) ==
  cmd.t = "HIncrBy" => (IncrTarget(hashes, cmd) <= MaxAbs /\ IncrTarget(hashes, cmd) >= 0 - MaxAbs)

\* A client calls hash_interact(cmd, state) and the arm of cmd takes its lock.
Enter(p, cmd) ==
  /\ pc[p] = "idle"
  /\ InBounds(cmd)
  /\ CanAcquire(LockKind(cmd))
  /\ lock' = Acquired(p, LockKind(cmd))
  /\ pc' = [pc EXCEPT ![p] = "locked"]
  /\ op' = [op EXCEPT ![p] = cmd]
  /\ UNCHANGED <<hashes, ret, curr_value, lastw, rv, translated>>

\* The call, recording what the container was when it took the lock.
Call(p, cmd) ==
  /\ Enter(p, cmd)
  /\ pre' = [pre EXCEPT ![p] = [hashes |-> hashes, lastw |-> lastw]]

\* The call, with nothing recorded.
CallConc(p, cmd) ==
  /\ Enter(p, cmd)
  /\ UNCHANGED pre

\* The arm returns r, leaving the container h2; the guard is dropped.
Finish(p, r, h2, w) ==
  /\ pc' = [pc EXCEPT ![p] = "done"]
  /\ ret' = [ret EXCEPT ![p] = r]
  /\ hashes' = h2
  /\ lock' = Released(p)
  /\ lastw' = w
  /\ UNCHANGED <<op, curr_value, pre, rv, translated>>

\* The record of a finished write: its command, its result and whether the
\* field it names was absent when it started.
Wrote(p, r) ==
  LET c == op[p]
      fresh == IF "field" \in DOMAIN c
               THEN ~(c.key \in DOMAIN hashes /\ c.field \in DOMAIN hashes[c.key])
               ELSE FALSE
  IN  [cmd |-> c, ret |-> r, fresh |-> fresh]

At(p, t) == pc[p] = "locked" /\ op[p].t = t

\* ------------------------------------------------- hash_interact's arms

\* The orders in which a HashMap with the fields S may be iterated.
IterOrders(S) ==
  {o \in [1 .. Cardinality(S) -> S] :
     \A i, j \in 1 .. Cardinality(S) : i # j => o[i] # o[j]}

HGet(p) ==
  /\ At(p, "HGet")
  /\ LET key == op[p].key
         field == op[p].field
     IN  Finish(p,
                IF key \in DOMAIN hashes /\ field \in DOMAIN hashes[key]
                THEN StringRes(hashes[key][field]) ELSE Nil,
                hashes, lastw)

\* HSet with or_insert in place of insert: an existing field is kept.
HSetNoOverwrite(p) ==
  /\ At(p, "HSet")
  /\ LET key == op[p].key
         h1 == or_default(hashes, key)
     IN  Finish(p, Ok,
                IF op[p].field \in DOMAIN h1[key] THEN h1
                ELSE [h1 EXCEPT ![key] = insert(h1[key], op[p].field, op[p].value)],
                Wrote(p, Ok))

HSet(p) ==
  /\ At(p, "HSet")
  /\ LET key == op[p].key
         h1 == or_default(hashes, key)
     IN  Finish(p, Ok,
                [h1 EXCEPT ![key] = insert(h1[key], op[p].field, op[p].value)],
                Wrote(p, Ok))

HExists(p) ==
  /\ At(p, "HExists")
  /\ LET key == op[p].key
     IN  Finish(p,
                IF key \in DOMAIN hashes
                THEN IntRes(IF contains_key(hashes[key], op[p].field) THEN 1 ELSE 0)
                ELSE IntRes(0),
                hashes, lastw)

\* HGetAll pushing only the field names.
HGetAllNoValues(p) ==
  /\ At(p, "HGetAll")
  /\ LET key == op[p].key
     IN  IF key \notin DOMAIN hashes
         THEN Finish(p, MultiStringRes(<<>>), hashes, lastw)
         ELSE \E o \in IterOrders(DOMAIN hashes[key]) :
                Finish(p, MultiStringRes(o), hashes, lastw)

HGetAll(p) ==
  /\ At(p, "HGetAll")
  /\ LET key == op[p].key
     IN  IF key \notin DOMAIN hashes
         THEN Finish(p, MultiStringRes(<<>>), hashes, lastw)
         ELSE \E o \in IterOrders(DOMAIN hashes[key]) :
                Finish(p,
                       MultiStringRes([i \in 1 .. 2 * Len(o) |->
                                         IF i % 2 = 1 THEN o[(i + 1) \div 2]
                                         ELSE hashes[key][o[i \div 2]]]),
                       hashes, lastw)

\* HMGet with filter_map in place of map: absent fields are dropped.
HMGetSkipAbsent(p) ==
  /\ At(p, "HMGet")
  /\ LET key == op[p].key
         fields == op[p].fields
         found == IF key \notin DOMAIN hashes THEN <<>>
                  ELSE SelectSeq(fields, LAMBDA f : f \in DOMAIN hashes[key])
     IN  Finish(p, Array([i \in 1 .. Len(found) |-> StringRes(hashes[key][found[i]])]),
                hashes, lastw)

HMGet(p) ==
  /\ At(p, "HMGet")
  /\ LET key == op[p].key
         fields == op[p].fields
     IN  Finish(p,
                Array(IF key \notin DOMAIN hashes
                      THEN [i \in 1 .. Len(fields) |-> Nil]
                      ELSE [i \in 1 .. Len(fields) |->
                              IF fields[i] \in DOMAIN hashes[key]
                              THEN StringRes(hashes[key][fields[i]]) ELSE Nil]),
                hashes, lastw)

HKeys(p) ==
  /\ At(p, "HKeys")
  /\ LET key == op[p].key
     IN  IF key \in DOMAIN hashes
         THEN \E o \in IterOrders(DOMAIN hashes[key]) :
                Finish(p, Array([i \in 1 .. Len(o) |-> StringRes(o[i])]), hashes, lastw)
         ELSE Finish(p, Array(<<>>), hashes, lastw)

\* HashMap::extend: the pairs are inserted in order, so a later pair wins.
RECURSIVE extend(_, _)
extend(m, kvs) ==
  IF kvs = <<>> THEN m
  ELSE extend(insert(m, kvs[1][1], kvs[1][2]), Tail(kvs))

\* HMSet that writes only into a hash that is already there.
HMSetKeepsAbsent(p) ==
  /\ At(p, "HMSet")
  /\ LET key == op[p].key
     IN  IF key \in DOMAIN hashes
         THEN Finish(p, Ok, [hashes EXCEPT ![key] = extend(hashes[key], op[p].key_values)],
                     Wrote(p, Ok))
         ELSE Finish(p, Ok, hashes, Wrote(p, Ok))

HMSet(p) ==
  /\ At(p, "HMSet")
  /\ LET key == op[p].key
         h1 == or_default(hashes, key)
     IN  Finish(p, Ok, [h1 EXCEPT ![key] = extend(h1[key], op[p].key_values)],
                Wrote(p, Ok))

\* HIncrBy up to the end of the match on hash.get(&field): the hash of key
\* is materialized, the current value is read and parsed.
HIncrByLoad(p) ==
  /\ At(p, "HIncrBy")
  /\ LET key == op[p].key
         field == op[p].field
         h1 == or_default(hashes, key)
         hash == h1[key]
         proceed(n) ==
           /\ pc' = [pc EXCEPT ![p] = "loaded"]
           /\ curr_value' = [curr_value EXCEPT ![p] = n]
           /\ hashes' = h1
           /\ UNCHANGED <<lock, op, ret, pre, lastw, rv, translated>>
     IN  IF field \notin DOMAIN hash THEN proceed(0)
         ELSE IF ~from_utf8_ok(hash[field])
         THEN \* from_utf8(value).map(..).unwrap() panics: the task unwinds,
              \* the guard is dropped on the way (the lock does not poison:
              \* write() hands the guard out directly) and the call never
              \* returns a ReturnValue.
              /\ pc' = [pc EXCEPT ![p] = "panicked"]
              /\ hashes' = h1
              /\ lock' = Released(p)
              /\ UNCHANGED <<op, ret, curr_value, pre, lastw, rv, translated>>
         ELSE IF ~parse_i64(hash[field]).ok
         THEN Finish(p, ops_error(BadType), h1, lastw)
         ELSE proceed(parse_i64(hash[field]).val)

\* HIncrBy storing the increment alone, as if the field were always new.
HIncrByStoreCount(p) ==
  /\ pc[p] = "loaded"
  /\ op[p].t = "HIncrBy"
  /\ LET key == op[p].key
         new_value == to_string(op[p].count)
     IN  Finish(p, Ok, [hashes EXCEPT ![key] = insert(hashes[key], op[p].field, new_value)],
                Wrote(p, Ok))

\* curr_value += count; hash.insert(field, curr_value.to_string()).
\* InBounds keeps the sum within -MaxAbs .. MaxAbs, far from the ends of
\* i64, so the overflow of += is outside what is checked here.
HIncrByStore(p) ==
  /\ pc[p] = "loaded"
  /\ op[p].t = "HIncrBy"
  /\ LET key == op[p].key
         new_value == to_string(curr_value[p] + op[p].count)
     IN  Finish(p, Ok, [hashes EXCEPT ![key] = insert(hashes[key], op[p].field, new_value)],
                Wrote(p, Ok))

\* HLen reading through entry(key).or_default(), as the writers do.
HLenMaterializes(p) ==
  /\ At(p, "HLen")
  /\ LET key == op[p].key
         h1 == or_default(hashes, key)
     IN  Finish(p, IntRes(Cardinality(DOMAIN h1[key])), h1, lastw)

HLen(p) ==
  /\ At(p, "HLen")
  /\ LET key == op[p].key
     IN  Finish(p,
                IntRes(IF key \in DOMAIN hashes THEN Cardinality(DOMAIN hashes[key]) ELSE 0),
                hashes, lastw)

\* A removal that counts a present field once for each time it is listed.
remove_each_dup(m, fields) ==
  [hash |-> [x \in DOMAIN m \ {fields[i] : i \in 1 .. Len(fields)} |-> m[x]],
   count |-> Cardinality({i \in 1 .. Len(fields) : fields[i] \in DOMAIN m})]

\* fields.iter().filter_map(|field| hash.remove(field)).count(): the hash
\* left and the number of removals.
RECURSIVE remove_each(_, _)
remove_each(m, fields) ==
  IF fields = <<>> THEN [hash |-> m, count |-> 0]
  ELSE LET rest == remove_each(remove(m, fields[1]), Tail(fields))
       IN  [hash |-> rest.hash,
            count |-> rest.count + (IF fields[1] \in DOMAIN m THEN 1 ELSE 0)]

\* HDel clearing the hash whenever a listed field was present.
HDelClears(p) ==
  /\ At(p, "HDel")
  /\ LET key == op[p].key
     IN  IF key \in DOMAIN hashes
         THEN LET r == remove_each(hashes[key], op[p].fields)
              IN  Finish(p, IntRes(r.count),
                         [hashes EXCEPT ![key] = IF r.count > 0 THEN EmptyHash ELSE r.hash],
                         Wrote(p, IntRes(r.count)))
         ELSE Finish(p, IntRes(0), hashes, Wrote(p, IntRes(0)))

\* HDel that detaches the key when its hash becomes empty.
HDelDropsEmptyKey(p) ==
  /\ At(p, "HDel")
  /\ LET key == op[p].key
     IN  IF key \in DOMAIN hashes
         THEN LET r == remove_each(hashes[key], op[p].fields)
              IN  Finish(p, IntRes(r.count),
                         IF r.hash = EmptyHash THEN remove(hashes, key)
                         ELSE [hashes EXCEPT ![key] = r.hash],
                         Wrote(p, IntRes(r.count)))
         ELSE Finish(p, IntRes(0), hashes, Wrote(p, IntRes(0)))

HDel(p) ==
  /\ At(p, "HDel")
  /\ LET key == op[p].key
     IN  IF key \in DOMAIN hashes
         THEN LET r == remove_each(hashes[key], op[p].fields)
              IN  Finish(p, IntRes(r.count), [hashes EXCEPT ![key] = r.hash],
                         Wrote(p, IntRes(r.count)))
         ELSE Finish(p, IntRes(0), hashes, Wrote(p, IntRes(0)))

HVals(p) ==
  /\ At(p, "HVals")
  /\ LET key == op[p].key
     IN  IF key \in DOMAIN hashes
         THEN \E o \in IterOrders(DOMAIN hashes[key]) :
                Finish(p, Array([i \in 1 .. Len(o) |-> StringRes(hashes[key][o[i]])]),
                       hashes, lastw)
         ELSE Finish(p, Array(<<>>), hashes, lastw)

HStrLen(p) ==
  /\ At(p, "HStrLen")
  /\ LET key == op[p].key
         field == op[p].field
     IN  Finish(p,
                IF key \in DOMAIN hashes /\ field \in DOMAIN hashes[key]
                THEN IntRes(Len(hashes[key][field])) ELSE IntRes(0),
                hashes, lastw)

\* HSetNX inserting even when the field is occupied.
HSetNXOverwrite(p) ==
  /\ At(p, "HSetNX")
  /\ LET key == op[p].key
         field == op[p].field
         h1 == or_default(hashes, key)
         h2 == [h1 EXCEPT ![key] = insert(h1[key], field, op[p].value)]
     IN  IF field \notin DOMAIN h1[key]
         THEN Finish(p, IntRes(1), h2, Wrote(p, IntRes(1)))
         ELSE Finish(p, IntRes(0), h2, lastw)

HSetNX(p) ==
  /\ At(p, "HSetNX")
  /\ LET key == op[p].key
         field == op[p].field
         h1 == or_default(hashes, key)
     IN  IF field \notin DOMAIN h1[key]
         THEN Finish(p, IntRes(1), [h1 EXCEPT ![key] = insert(h1[key], field, op[p].value)],
                     Wrote(p, IntRes(1)))
         ELSE Finish(p, IntRes(0), h1, lastw)

\* One step of the call of client p.
hash_interact(p) ==
  \/ HGet(p)
  \/ HSet(p)
  \/ HExists(p)
  \/ HGetAll(p)
  \/ HMGet(p)
  \/ HKeys(p)
  \/ HMSet(p)
  \/ HIncrByLoad(p)
  \/ HIncrByStore(p)
  \/ HLen(p)
  \/ HDel(p)
  \/ HVals(p)
  \/ HStrLen(p)
  \/ HSetNX(p)

\* The caller has taken the result; the client is ready for its next call.
Return(p) ==
  /\ pc[p] = "done"
  /\ pc' = [pc EXCEPT ![p] = "idle"]
  /\ op' = [op EXCEPT ![p] = NoOp]
  /\ ret' = [ret EXCEPT ![p] = NoReturn]
  /\ curr_value' = [curr_value EXCEPT ![p] = 0]
  /\ pre' = [pre EXCEPT ![p] = NoPre]
  /\ UNCHANGED <<hashes, lock, lastw, rv, translated>>

\* ---------------------------------------------------------- specifications

\* One client issuing every command, one call after the other.
Next ==
  \/ \E cmd \in HashOps : Call(1, cmd)
  \/ hash_interact(1)
  \/ Return(1)

Spec == Init /\ [][Next]_vars

\* Several clients at once, each issuing commands on one field.
ConcOps ==
  {c \in HashOps :
     /\ "field" \in DOMAIN c => c.field = F1
     /\ "fields" \in DOMAIN c => c.fields = <<F1>>
     /\ "key_values" \in DOMAIN c => c.key_values = <<<<F1, <<49>>>>>>
     /\ "value" \in DOMAIN c => c.value = <<49>>
     /\ "count" \in DOMAIN c => c.count = 1}

NextConc ==
  \E p \in Procs :
    \/ \E cmd \in ConcOps : CallConc(p, cmd)
    \/ hash_interact(p)
    \/ Return(p)

SpecConc == Init /\ [][NextConc]_vars

\* Every client increments the same field by 1, once.
IncrOnce == [t |-> "HIncrBy", key |-> K1, field |-> F1, count |-> 1]

\* The containers in which the field is absent or holds "0".
InitIncr ==
  /\ hashes \in {EmptyHashes}
       \cup {insert(EmptyHashes, K1, m) :
               m \in {g \in UNION {[D -> Vals \cup {<<48>>}] : D \in SUBSET Fields} :
                        F1 \in DOMAIN g => g[F1] = <<48>>}}
  /\ lock = [writer |-> 0, readers |-> {}]
  /\ pc = [p \in Procs |-> "idle"]
  /\ op = [p \in Procs |-> NoOp]
  /\ ret = [p \in Procs |-> NoReturn]
  /\ curr_value = [p \in Procs |-> 0]
  /\ pre = [p \in Procs |-> NoPre]
  /\ lastw = NoWrite
  /\ rv = NoWire
  /\ translated = NotTranslated

NextIncr ==
  \E p \in Procs :
    \/ Call(p, IncrOnce)
    \/ HIncrByLoad(p)
    \/ HIncrByStore(p)

SpecIncr == InitIncr /\ [][NextIncr]_vars

\* ------------------------------------------------ translate (resp/ops.rs)

\* Longest tail (the elements after the command name) of a translated array.
MaxTail == 4

\* RedisValue, the wire value.  A string is the sequence of its UTF-8 bytes.
SimpleString(s) == [t |-> "SimpleString", s |-> s]
BulkString(s) == [t |-> "BulkString", s |-> s]
WireError(s) == [t |-> "Error", s |-> s]
IntVal(i) == [t |-> "Int", i |-> i]
WireArray(l) == [t |-> "Array", l |-> l]
NullArray == [t |-> "NullArray"]
NullBulkString == [t |-> "NullBulkString"]

\* Result<_, OpsError>.
OkRes(v) == [ok |-> TRUE, v |-> v]
Err(e) == [ok |-> FALSE, v |-> e]
\* r?: the rest runs on the value of an Ok, an Err is returned as it is.
Bind(r, F(_)) == IF r.ok THEN F(r.v) ELSE r

\* OpsError.
Noop == [t |-> "Noop", n |-> 0]
UnknownOp == [t |-> "UnknownOp", n |-> 0]
NotEnoughArgs(n) == [t |-> "NotEnoughArgs", n |-> n]
WrongNumberOfArgs(n) == [t |-> "WrongNumberOfArgs", n |-> n]
InvalidType == [t |-> "InvalidType", n |-> 0]

\* Ops: a variant and its arguments in order.
Op(t, args) == [t |-> t, args |-> args]
None == [some |-> FALSE]
Some(c) == [some |-> TRUE, c |-> c]

\* The command names, as UTF-8 bytes.
N_ping == <<112, 105, 110, 103>>
N_keys == <<107, 101, 121, 115>>
N_set == <<115, 101, 116>>
N_get == <<103, 101, 116>>
N_del == <<100, 101, 108>>
N_rename == <<114, 101, 110, 97, 109, 101>>
N_exists == <<101, 120, 105, 115, 116, 115>>
N_sadd == <<115, 97, 100, 100>>
N_srem == <<115, 114, 101, 109>>
N_smembers == <<115, 109, 101, 109, 98, 101, 114, 115>>
N_scard == <<115, 99, 97, 114, 100>>
N_sdiff == <<115, 100, 105, 102, 102>>
N_sunion == <<115, 117, 110, 105, 111, 110>>
N_sinter == <<115, 105, 110, 116, 101, 114>>
N_sdiffstore == <<115, 100, 105, 102, 102, 115, 116, 111, 114, 101>>
N_sunionstore == <<115, 117, 110, 105, 111, 110, 115, 116, 111, 114, 101>>
N_sinterstore == <<115, 105, 110, 116, 101, 114, 115, 116, 111, 114, 101>>
N_spop == <<115, 112, 111, 112>>
N_sismember == <<115, 105, 115, 109, 101, 109, 98, 101, 114>>
N_smove == <<115, 109, 111, 118, 101>>
N_srandmember == <<115, 114, 97, 110, 100, 109, 101, 109, 98, 101, 114>>
N_lpush == <<108, 112, 117, 115, 104>>
N_lpushx == <<108, 112, 117, 115, 104, 120>>
N_llen == <<108, 108, 101, 110>>
N_lpop == <<108, 112, 111, 112>>
N_linsert == <<108, 105, 110, 115, 101, 114, 116>>
N_hset == <<104, 115, 101, 116>>
N_foo == <<102, 111, 111>>
N_k == <<107>>
N_2 == <<50>>
N_minus1 == <<45, 49>>

\* Names in upper case.
N_HSET == <<72, 83, 69, 84>>
N_LINSERT == <<76, 73, 78, 83, 69, 82, 84>>
N_KEYS == <<75, 69, 89, 83>>
\* "KEYS" spelled with U+212A KELVIN SIGN, whose lower case is "k".
N_KelvinEYS == <<226, 132, 170, 69, 89, 83>>
\* "GET", "SET", "PING".
UpperNames == {<<71, 69, 84>>, <<83, 69, 84>>, <<80, 73, 78, 71>>}
\* "GÉT", "PİNG", and a capital sigma ending ("ΟΣ") and starting ("ΣΟ") a word.
NonAsciiNames ==
  {<<71, 195, 137, 84>>, <<80, 196, 176, 78, 71>>,
   <<206, 159, 206, 163>>, <<206, 163, 206, 159>>}

\* str::chars: the scalar values of a string, which is well-formed UTF-8.
RECURSIVE chars(_)
chars(s) ==
  IF s = <<>> THEN <<>>
  ELSE LET b == s[1]
           n == IF b < 128 THEN 1 ELSE IF b < 224 THEN 2 ELSE IF b < 240 THEN 3 ELSE 4
           t(i) == s[i] % 64
           c == CASE n = 1 -> b
                  [] n = 2 -> ((b % 32) * 64) + t(2)
                  [] n = 3 -> ((((b % 16) * 64) + t(2)) * 64) + t(3)
                  [] n = 4 -> ((((((b % 8) * 64) + t(2)) * 64) + t(3)) * 64) + t(4)
       IN  <<c>> \o chars(SubSeq(s, n + 1, Len(s)))

\* String::push: the UTF-8 bytes of one scalar value.
encode_utf8(c) ==
  IF c < 128 THEN <<c>>
  ELSE IF c < 2048 THEN <<192 + (c \div 64), 128 + (c % 64)>>
  ELSE IF c < 65536
  THEN <<224 + (c \div 4096), 128 + ((c \div 64) % 64), 128 + (c % 64)>>
  ELSE <<240 + (c \div 262144), 128 + ((c \div 4096) % 64), 128 + ((c \div 64) % 64),
         128 + (c % 64)>>

\* core::unicode::conversions: the characters with a one-character lower
\* case, as runs <<first, last, step, offset>>: every step-th character of
\* first .. last maps to itself plus offset (Unicode 17.0).
LOWERCASE_TABLE ==
  {
   <<65, 90, 1, 32>>, <<192, 214, 1, 32>>, <<216, 222, 1, 32>>, <<256, 302, 2, 1>>,
   <<306, 310, 2, 1>>, <<313, 327, 2, 1>>, <<330, 374, 2, 1>>, <<376, 376, 1, -121>>,
   <<377, 381, 2, 1>>, <<385, 385, 1, 210>>, <<386, 388, 2, 1>>, <<390, 390, 1, 206>>,
   <<391, 391, 1, 1>>, <<393, 394, 1, 205>>, <<395, 395, 1, 1>>, <<398, 398, 1, 79>>,
   <<399, 399, 1, 202>>, <<400, 400, 1, 203>>, <<401, 401, 1, 1>>, <<403, 403, 1, 205>>,
   <<404, 404, 1, 207>>, <<406, 406, 1, 211>>, <<407, 407, 1, 209>>, <<408, 408, 1, 1>>,
   <<412, 412, 1, 211>>, <<413, 413, 1, 213>>, <<415, 415, 1, 214>>, <<416, 420, 2, 1>>,
   <<422, 422, 1, 218>>, <<423, 423, 1, 1>>, <<425, 425, 1, 218>>, <<428, 428, 1, 1>>,
   <<430, 430, 1, 218>>, <<431, 431, 1, 1>>, <<433, 434, 1, 217>>, <<435, 437, 2, 1>>,
   <<439, 439, 1, 219>>, <<440, 440, 1, 1>>, <<444, 444, 1, 1>>, <<452, 452, 1, 2>>,
   <<453, 453, 1, 1>>, <<455, 455, 1, 2>>, <<456, 456, 1, 1>>, <<458, 458, 1, 2>>,
   <<459, 475, 2, 1>>, <<478, 494, 2, 1>>, <<497, 497, 1, 2>>, <<498, 500, 2, 1>>,
   <<502, 502, 1, -97>>, <<503, 503, 1, -56>>, <<504, 542, 2, 1>>, <<544, 544, 1, -130>>,
   <<546, 562, 2, 1>>, <<570, 570, 1, 10795>>, <<571, 571, 1, 1>>, <<573, 573, 1, -163>>,
   <<574, 574, 1, 10792>>, <<577, 577, 1, 1>>, <<579, 579, 1, -195>>, <<580, 580, 1, 69>>,
   <<581, 581, 1, 71>>, <<582, 590, 2, 1>>, <<880, 882, 2, 1>>, <<886, 886, 1, 1>>,
   <<895, 895, 1, 116>>, <<902, 902, 1, 38>>, <<904, 906, 1, 37>>, <<908, 908, 1, 64>>,
   <<910, 911, 1, 63>>, <<913, 929, 1, 32>>, <<931, 939, 1, 32>>, <<975, 975, 1, 8>>,
   <<984, 1006, 2, 1>>, <<1012, 1012, 1, -60>>, <<1015, 1015, 1, 1>>, <<1017, 1017, 1, -7>>,
   <<1018, 1018, 1, 1>>, <<1021, 1023, 1, -130>>, <<1024, 1039, 1, 80>>, <<1040, 1071, 1, 32>>,
   <<1120, 1152, 2, 1>>, <<1162, 1214, 2, 1>>, <<1216, 1216, 1, 15>>, <<1217, 1229, 2, 1>>,
   <<1232, 1326, 2, 1>>, <<1329, 1366, 1, 48>>, <<4256, 4293, 1, 7264>>, <<4295, 4295, 1, 7264>>,
   <<4301, 4301, 1, 7264>>, <<5024, 5103, 1, 38864>>, <<5104, 5109, 1, 8>>, <<7305, 7305, 1, 1>>,
   <<7312, 7354, 1, -3008>>, <<7357, 7359, 1, -3008>>, <<7680, 7828, 2, 1>>, <<7838, 7838, 1, -7615>>,
   <<7840, 7934, 2, 1>>, <<7944, 7951, 1, -8>>, <<7960, 7965, 1, -8>>, <<7976, 7983, 1, -8>>,
   <<7992, 7999, 1, -8>>, <<8008, 8013, 1, -8>>, <<8025, 8031, 2, -8>>, <<8040, 8047, 1, -8>>,
   <<8072, 8079, 1, -8>>, <<8088, 8095, 1, -8>>, <<8104, 8111, 1, -8>>, <<8120, 8121, 1, -8>>,
   <<8122, 8123, 1, -74>>, <<8124, 8124, 1, -9>>, <<8136, 8139, 1, -86>>, <<8140, 8140, 1, -9>>,
   <<8152, 8153, 1, -8>>, <<8154, 8155, 1, -100>>, <<8168, 8169, 1, -8>>, <<8170, 8171, 1, -112>>,
   <<8172, 8172, 1, -7>>, <<8184, 8185, 1, -128>>, <<8186, 8187, 1, -126>>, <<8188, 8188, 1, -9>>,
   <<8486, 8486, 1, -7517>>, <<8490, 8490, 1, -8383>>, <<8491, 8491, 1, -8262>>, <<8498, 8498, 1, 28>>,
   <<8544, 8559, 1, 16>>, <<8579, 8579, 1, 1>>, <<9398, 9423, 1, 26>>, <<11264, 11311, 1, 48>>,
   <<11360, 11360, 1, 1>>, <<11362, 11362, 1, -10743>>, <<11363, 11363, 1, -3814>>, <<11364, 11364, 1, -10727>>,
   <<11367, 11371, 2, 1>>, <<11373, 11373, 1, -10780>>, <<11374, 11374, 1, -10749>>, <<11375, 11375, 1, -10783>>,
   <<11376, 11376, 1, -10782>>, <<11378, 11378, 1, 1>>, <<11381, 11381, 1, 1>>, <<11390, 11391, 1, -10815>>,
   <<11392, 11490, 2, 1>>, <<11499, 11501, 2, 1>>, <<11506, 11506, 1, 1>>, <<42560, 42604, 2, 1>>,
   <<42624, 42650, 2, 1>>, <<42786, 42798, 2, 1>>, <<42802, 42862, 2, 1>>, <<42873, 42875, 2, 1>>,
   <<42877, 42877, 1, -35332>>, <<42878, 42886, 2, 1>>, <<42891, 42891, 1, 1>>, <<42893, 42893, 1, -42280>>,
   <<42896, 42898, 2, 1>>, <<42902, 42920, 2, 1>>, <<42922, 42922, 1, -42308>>, <<42923, 42923, 1, -42319>>,
   <<42924, 42924, 1, -42315>>, <<42925, 42925, 1, -42305>>, <<42926, 42926, 1, -42308>>, <<42928, 42928, 1, -42258>>,
   <<42929, 42929, 1, -42282>>, <<42930, 42930, 1, -42261>>, <<42931, 42931, 1, 928>>, <<42932, 42946, 2, 1>>,
   <<42948, 42948, 1, -48>>, <<42949, 42949, 1, -42307>>, <<42950, 42950, 1, -35384>>, <<42951, 42953, 2, 1>>,
   <<42955, 42955, 1, -42343>>, <<42956, 42970, 2, 1>>, <<42972, 42972, 1, -42561>>, <<42997, 42997, 1, 1>>,
   <<65313, 65338, 1, 32>>, <<66560, 66599, 1, 40>>, <<66736, 66771, 1, 40>>, <<66928, 66938, 1, 39>>,
   <<66940, 66954, 1, 39>>, <<66956, 66962, 1, 39>>, <<66964, 66965, 1, 39>>, <<68736, 68786, 1, 64>>,
   <<68944, 68965, 1, 32>>, <<71840, 71871, 1, 32>>, <<93760, 93791, 1, 32>>, <<93856, 93880, 1, 27>>,
   <<125184, 125217, 1, 34>>}

\* core::unicode::Cased, as ranges <<first, last>>.
CASED_RANGES ==
  {
   <<65, 90>>, <<97, 122>>, <<170, 170>>, <<181, 181>>, <<186, 186>>, <<192, 214>>,
   <<216, 246>>, <<248, 442>>, <<444, 447>>, <<452, 659>>, <<662, 696>>, <<704, 705>>,
   <<736, 740>>, <<837, 837>>, <<880, 883>>, <<886, 887>>, <<890, 893>>, <<895, 895>>,
   <<902, 902>>, <<904, 906>>, <<908, 908>>, <<910, 929>>, <<931, 1013>>, <<1015, 1153>>,
   <<1162, 1327>>, <<1329, 1366>>, <<1376, 1416>>, <<4256, 4293>>, <<4295, 4295>>, <<4301, 4301>>,
   <<4304, 4346>>, <<4348, 4351>>, <<5024, 5109>>, <<5112, 5117>>, <<7296, 7306>>, <<7312, 7354>>,
   <<7357, 7359>>, <<7424, 7615>>, <<7680, 7957>>, <<7960, 7965>>, <<7968, 8005>>, <<8008, 8013>>,
   <<8016, 8023>>, <<8025, 8025>>, <<8027, 8027>>, <<8029, 8029>>, <<8031, 8061>>, <<8064, 8116>>,
   <<8118, 8124>>, <<8126, 8126>>, <<8130, 8132>>, <<8134, 8140>>, <<8144, 8147>>, <<8150, 8155>>,
   <<8160, 8172>>, <<8178, 8180>>, <<8182, 8188>>, <<8305, 8305>>, <<8319, 8319>>, <<8336, 8348>>,
   <<8450, 8450>>, <<8455, 8455>>, <<8458, 8467>>, <<8469, 8469>>, <<8473, 8477>>, <<8484, 8484>>,
   <<8486, 8486>>, <<8488, 8488>>, <<8490, 8493>>, <<8495, 8500>>, <<8505, 8505>>, <<8508, 8511>>,
   <<8517, 8521>>, <<8526, 8526>>, <<8544, 8575>>, <<8579, 8580>>, <<9398, 9449>>, <<11264, 11492>>,
   <<11499, 11502>>, <<11506, 11507>>, <<11520, 11557>>, <<11559, 11559>>, <<11565, 11565>>, <<42560, 42605>>,
   <<42624, 42653>>, <<42786, 42887>>, <<42891, 42894>>, <<42896, 42972>>, <<42993, 42998>>, <<43000, 43002>>,
   <<43824, 43866>>, <<43868, 43881>>, <<43888, 43967>>, <<64256, 64262>>, <<64275, 64279>>, <<65313, 65338>>,
   <<65345, 65370>>, <<66560, 66639>>, <<66736, 66771>>, <<66776, 66811>>, <<66928, 66938>>, <<66940, 66954>>,
   <<66956, 66962>>, <<66964, 66965>>, <<66967, 66977>>, <<66979, 66993>>, <<66995, 67001>>, <<67003, 67004>>,
   <<67456, 67456>>, <<67459, 67461>>, <<67463, 67504>>, <<67506, 67514>>, <<68736, 68786>>, <<68800, 68850>>,
   <<68944, 68965>>, <<68976, 68997>>, <<71840, 71903>>, <<93760, 93823>>, <<93856, 93880>>, <<93883, 93907>>,
   <<119808, 119892>>, <<119894, 119964>>, <<119966, 119967>>, <<119970, 119970>>, <<119973, 119974>>, <<119977, 119980>>,
   <<119982, 119993>>, <<119995, 119995>>, <<119997, 120003>>, <<120005, 120069>>, <<120071, 120074>>, <<120077, 120084>>,
   <<120086, 120092>>, <<120094, 120121>>, <<120123, 120126>>, <<120128, 120132>>, <<120134, 120134>>, <<120138, 120144>>,
   <<120146, 120485>>, <<120488, 120512>>, <<120514, 120538>>, <<120540, 120570>>, <<120572, 120596>>, <<120598, 120628>>,
   <<120630, 120654>>, <<120656, 120686>>, <<120688, 120712>>, <<120714, 120744>>, <<120746, 120770>>, <<120772, 120779>>,
   <<122624, 122633>>, <<122635, 122654>>, <<122661, 122666>>, <<122928, 122989>>, <<125184, 125251>>, <<127280, 127305>>,
   <<127312, 127337>>, <<127344, 127369>>}

\* core::unicode::Case_Ignorable, as ranges <<first, last>>.
CASE_IGNORABLE_RANGES ==
  {
   <<39, 39>>, <<46, 46>>, <<58, 58>>, <<94, 94>>, <<96, 96>>, <<168, 168>>,
   <<173, 173>>, <<175, 175>>, <<180, 180>>, <<183, 184>>, <<688, 879>>, <<884, 885>>,
   <<890, 890>>, <<900, 901>>, <<903, 903>>, <<1155, 1161>>, <<1369, 1369>>, <<1375, 1375>>,
   <<1425, 1469>>, <<1471, 1471>>, <<1473, 1474>>, <<1476, 1477>>, <<1479, 1479>>, <<1524, 1524>>,
   <<1536, 1541>>, <<1552, 1562>>, <<1564, 1564>>, <<1600, 1600>>, <<1611, 1631>>, <<1648, 1648>>,
   <<1750, 1757>>, <<1759, 1768>>, <<1770, 1773>>, <<1807, 1807>>, <<1809, 1809>>, <<1840, 1866>>,
   <<1958, 1968>>, <<2027, 2037>>, <<2042, 2042>>, <<2045, 2045>>, <<2070, 2093>>, <<2137, 2139>>,
   <<2184, 2184>>, <<2192, 2193>>, <<2199, 2207>>, <<2249, 2306>>, <<2362, 2362>>, <<2364, 2364>>,
   <<2369, 2376>>, <<2381, 2381>>, <<2385, 2391>>, <<2402, 2403>>, <<2417, 2417>>, <<2433, 2433>>,
   <<2492, 2492>>, <<2497, 2500>>, <<2509, 2509>>, <<2530, 2531>>, <<2558, 2558>>, <<2561, 2562>>,
   <<2620, 2620>>, <<2625, 2626>>, <<2631, 2632>>, <<2635, 2637>>, <<2641, 2641>>, <<2672, 2673>>,
   <<2677, 2677>>, <<2689, 2690>>, <<2748, 2748>>, <<2753, 2757>>, <<2759, 2760>>, <<2765, 2765>>,
   <<2786, 2787>>, <<2810, 2815>>, <<2817, 2817>>, <<2876, 2876>>, <<2879, 2879>>, <<2881, 2884>>,
   <<2893, 2893>>, <<2901, 2902>>, <<2914, 2915>>, <<2946, 2946>>, <<3008, 3008>>, <<3021, 3021>>,
   <<3072, 3072>>, <<3076, 3076>>, <<3132, 3132>>, <<3134, 3136>>, <<3142, 3144>>, <<3146, 3149>>,
   <<3157, 3158>>, <<3170, 3171>>, <<3201, 3201>>, <<3260, 3260>>, <<3263, 3263>>, <<3270, 3270>>,
   <<3276, 3277>>, <<3298, 3299>>, <<3328, 3329>>, <<3387, 3388>>, <<3393, 3396>>, <<3405, 3405>>,
   <<3426, 3427>>, <<3457, 3457>>, <<3530, 3530>>, <<3538, 3540>>, <<3542, 3542>>, <<3633, 3633>>,
   <<3636, 3642>>, <<3654, 3662>>, <<3761, 3761>>, <<3764, 3772>>, <<3782, 3782>>, <<3784, 3790>>,
   <<3864, 3865>>, <<3893, 3893>>, <<3895, 3895>>, <<3897, 3897>>, <<3953, 3966>>, <<3968, 3972>>,
   <<3974, 3975>>, <<3981, 3991>>, <<3993, 4028>>, <<4038, 4038>>, <<4141, 4144>>, <<4146, 4151>>,
   <<4153, 4154>>, <<4157, 4158>>, <<4184, 4185>>, <<4190, 4192>>, <<4209, 4212>>, <<4226, 4226>>,
   <<4229, 4230>>, <<4237, 4237>>, <<4253, 4253>>, <<4348, 4348>>, <<4957, 4959>>, <<5906, 5908>>,
   <<5938, 5939>>, <<5970, 5971>>, <<6002, 6003>>, <<6068, 6069>>, <<6071, 6077>>, <<6086, 6086>>,
   <<6089, 6099>>, <<6103, 6103>>, <<6109, 6109>>, <<6155, 6159>>, <<6211, 6211>>, <<6277, 6278>>,
   <<6313, 6313>>, <<6432, 6434>>, <<6439, 6440>>, <<6450, 6450>>, <<6457, 6459>>, <<6679, 6680>>,
   <<6683, 6683>>, <<6742, 6742>>, <<6744, 6750>>, <<6752, 6752>>, <<6754, 6754>>, <<6757, 6764>>,
   <<6771, 6780>>, <<6783, 6783>>, <<6823, 6823>>, <<6832, 6877>>, <<6880, 6891>>, <<6912, 6915>>,
   <<6964, 6964>>, <<6966, 6970>>, <<6972, 6972>>, <<6978, 6978>>, <<7019, 7027>>, <<7040, 7041>>,
   <<7074, 7077>>, <<7080, 7081>>, <<7083, 7085>>, <<7142, 7142>>, <<7144, 7145>>, <<7149, 7149>>,
   <<7151, 7153>>, <<7212, 7219>>, <<7222, 7223>>, <<7288, 7293>>, <<7376, 7378>>, <<7380, 7392>>,
   <<7394, 7400>>, <<7405, 7405>>, <<7412, 7412>>, <<7416, 7417>>, <<7468, 7530>>, <<7544, 7544>>,
   <<7579, 7679>>, <<8125, 8125>>, <<8127, 8129>>, <<8141, 8143>>, <<8157, 8159>>, <<8173, 8175>>,
   <<8189, 8190>>, <<8203, 8207>>, <<8216, 8217>>, <<8228, 8228>>, <<8231, 8231>>, <<8234, 8238>>,
   <<8288, 8292>>, <<8294, 8303>>, <<8305, 8305>>, <<8319, 8319>>, <<8336, 8348>>, <<8400, 8432>>,
   <<11388, 11389>>, <<11503, 11505>>, <<11631, 11631>>, <<11647, 11647>>, <<11744, 11775>>, <<11823, 11823>>,
   <<12293, 12293>>, <<12330, 12333>>, <<12337, 12341>>, <<12347, 12347>>, <<12441, 12446>>, <<12540, 12542>>,
   <<40981, 40981>>, <<42232, 42237>>, <<42508, 42508>>, <<42607, 42610>>, <<42612, 42621>>, <<42623, 42623>>,
   <<42652, 42655>>, <<42736, 42737>>, <<42752, 42785>>, <<42864, 42864>>, <<42888, 42890>>, <<42993, 42996>>,
   <<43000, 43001>>, <<43010, 43010>>, <<43014, 43014>>, <<43019, 43019>>, <<43045, 43046>>, <<43052, 43052>>,
   <<43204, 43205>>, <<43232, 43249>>, <<43263, 43263>>, <<43302, 43309>>, <<43335, 43345>>, <<43392, 43394>>,
   <<43443, 43443>>, <<43446, 43449>>, <<43452, 43453>>, <<43471, 43471>>, <<43493, 43494>>, <<43561, 43566>>,
   <<43569, 43570>>, <<43573, 43574>>, <<43587, 43587>>, <<43596, 43596>>, <<43632, 43632>>, <<43644, 43644>>,
   <<43696, 43696>>, <<43698, 43700>>, <<43703, 43704>>, <<43710, 43711>>, <<43713, 43713>>, <<43741, 43741>>,
   <<43756, 43757>>, <<43763, 43764>>, <<43766, 43766>>, <<43867, 43871>>, <<43881, 43883>>, <<44005, 44005>>,
   <<44008, 44008>>, <<44013, 44013>>, <<64286, 64286>>, <<64434, 64450>>, <<65024, 65039>>, <<65043, 65043>>,
   <<65056, 65071>>, <<65106, 65106>>, <<65109, 65109>>, <<65279, 65279>>, <<65287, 65287>>, <<65294, 65294>>,
   <<65306, 65306>>, <<65342, 65342>>, <<65344, 65344>>, <<65392, 65392>>, <<65438, 65439>>, <<65507, 65507>>,
   <<65529, 65531>>, <<66045, 66045>>, <<66272, 66272>>, <<66422, 66426>>, <<67456, 67461>>, <<67463, 67504>>,
   <<67506, 67514>>, <<68097, 68099>>, <<68101, 68102>>, <<68108, 68111>>, <<68152, 68154>>, <<68159, 68159>>,
   <<68325, 68326>>, <<68900, 68903>>, <<68942, 68942>>, <<68969, 68973>>, <<68975, 68975>>, <<69291, 69292>>,
   <<69317, 69317>>, <<69370, 69375>>, <<69446, 69456>>, <<69506, 69509>>, <<69633, 69633>>, <<69688, 69702>>,
   <<69744, 69744>>, <<69747, 69748>>, <<69759, 69761>>, <<69811, 69814>>, <<69817, 69818>>, <<69821, 69821>>,
   <<69826, 69826>>, <<69837, 69837>>, <<69888, 69890>>, <<69927, 69931>>, <<69933, 69940>>, <<70003, 70003>>,
   <<70016, 70017>>, <<70070, 70078>>, <<70089, 70092>>, <<70095, 70095>>, <<70191, 70193>>, <<70196, 70196>>,
   <<70198, 70199>>, <<70206, 70206>>, <<70209, 70209>>, <<70367, 70367>>, <<70371, 70378>>, <<70400, 70401>>,
   <<70459, 70460>>, <<70464, 70464>>, <<70502, 70508>>, <<70512, 70516>>, <<70587, 70592>>, <<70606, 70606>>,
   <<70608, 70608>>, <<70610, 70610>>, <<70625, 70626>>, <<70712, 70719>>, <<70722, 70724>>, <<70726, 70726>>,
   <<70750, 70750>>, <<70835, 70840>>, <<70842, 70842>>, <<70847, 70848>>, <<70850, 70851>>, <<71090, 71093>>,
   <<71100, 71101>>, <<71103, 71104>>, <<71132, 71133>>, <<71219, 71226>>, <<71229, 71229>>, <<71231, 71232>>,
   <<71339, 71339>>, <<71341, 71341>>, <<71344, 71349>>, <<71351, 71351>>, <<71453, 71453>>, <<71455, 71455>>,
   <<71458, 71461>>, <<71463, 71467>>, <<71727, 71735>>, <<71737, 71738>>, <<71995, 71996>>, <<71998, 71998>>,
   <<72003, 72003>>, <<72148, 72151>>, <<72154, 72155>>, <<72160, 72160>>, <<72193, 72202>>, <<72243, 72248>>,
   <<72251, 72254>>, <<72263, 72263>>, <<72273, 72278>>, <<72281, 72283>>, <<72330, 72342>>, <<72344, 72345>>,
   <<72544, 72544>>, <<72546, 72548>>, <<72550, 72550>>, <<72752, 72758>>, <<72760, 72765>>, <<72767, 72767>>,
   <<72850, 72871>>, <<72874, 72880>>, <<72882, 72883>>, <<72885, 72886>>, <<73009, 73014>>, <<73018, 73018>>,
   <<73020, 73021>>, <<73023, 73029>>, <<73031, 73031>>, <<73104, 73105>>, <<73109, 73109>>, <<73111, 73111>>,
   <<73177, 73177>>, <<73459, 73460>>, <<73472, 73473>>, <<73526, 73530>>, <<73536, 73536>>, <<73538, 73538>>,
   <<73562, 73562>>, <<78896, 78912>>, <<78919, 78933>>, <<90398, 90409>>, <<90413, 90415>>, <<92912, 92916>>,
   <<92976, 92982>>, <<92992, 92995>>, <<93504, 93506>>, <<93547, 93548>>, <<94031, 94031>>, <<94095, 94111>>,
   <<94176, 94177>>, <<94179, 94180>>, <<94194, 94195>>, <<110576, 110579>>, <<110581, 110587>>, <<110589, 110590>>,
   <<113821, 113822>>, <<113824, 113827>>, <<118528, 118573>>, <<118576, 118598>>, <<119143, 119145>>, <<119155, 119170>>,
   <<119173, 119179>>, <<119210, 119213>>, <<119362, 119364>>, <<121344, 121398>>, <<121403, 121452>>, <<121461, 121461>>,
   <<121476, 121476>>, <<121499, 121503>>, <<121505, 121519>>, <<122880, 122886>>, <<122888, 122904>>, <<122907, 122913>>,
   <<122915, 122916>>, <<122918, 122922>>, <<122928, 122989>>, <<123023, 123023>>, <<123184, 123197>>, <<123566, 123566>>,
   <<123628, 123631>>, <<124139, 124143>>, <<124398, 124399>>, <<124643, 124643>>, <<124646, 124646>>, <<124654, 124655>>,
   <<124661, 124661>>, <<124671, 124671>>, <<125136, 125142>>, <<125252, 125259>>, <<127995, 127999>>, <<917505, 917505>>,
   <<917536, 917631>>, <<917760, 917999>>}

Cased(c) == \E r \in CASED_RANGES : r[1] <= c /\ c <= r[2]
Case_Ignorable(c) == \E r \in CASE_IGNORABLE_RANGES : r[1] <= c /\ c <= r[2]

\* conversions::to_lower: the lower case of one character, one or two
\* characters long (U+0130 becomes "i" and U+0307).
to_lower(c) ==
  IF c < 128 THEN (IF c >= 65 /\ c <= 90 THEN <<c + 32>> ELSE <<c>>)
  ELSE IF c = 304 THEN <<105, 775>>
  ELSE LET hits == {r \in LOWERCASE_TABLE :
                      r[1] <= c /\ c <= r[2] /\ (c - r[1]) % r[3] = 0}
       IN  IF hits = {} THEN <<c>> ELSE <<c + (CHOOSE r \in hits : TRUE)[4]>>

\* iter.skip_while(Case_Ignorable).next() is a cased character.
case_ignorable_then_cased(cs) ==
  LET rest == {i \in 1 .. Len(cs) : ~Case_Ignorable(cs[i])}
  IN  rest # {} /\ Cased(cs[CHOOSE i \in rest : \A j \in rest : i <= j])

\* The capital sigma at position i of cs: the final form when it ends a word.
map_uppercase_sigma(cs, i) ==
  LET before == [j \in 1 .. i - 1 |-> cs[i - j]]
      after == SubSeq(cs, i + 1, Len(cs))
      is_word_final == case_ignorable_then_cased(before) /\ ~case_ignorable_then_cased(after)
  IN  IF is_word_final THEN <<962>> ELSE <<963>>

RECURSIVE encode_all(_)
encode_all(cs) == IF cs = <<>> THEN <<>> ELSE encode_utf8(cs[1]) \o encode_all(Tail(cs))

RECURSIVE lowercase_from(_, _)
lowercase_from(cs, i) ==
  IF i > Len(cs) THEN <<>>
  ELSE encode_all(IF cs[i] = 931 THEN map_uppercase_sigma(cs, i) ELSE to_lower(cs[i]))
         \o lowercase_from(cs, i + 1)

\* str::to_lowercase.  A string is the sequence of its UTF-8 bytes.
to_lowercase(s) ==
  IF \A i \in 1 .. Len(s) : s[i] < 128
  THEN [i \in 1 .. Len(s) |-> IF s[i] >= 65 /\ s[i] <= 90 THEN s[i] + 32 ELSE s[i]]
  ELSE lowercase_from(chars(s), 1)

\* A usize is written two64 * 2^64 + v: 2^64 itself is beyond the integers
\* that can be computed with here.
USize(n) == [two64 |-> 0, v |-> n]
\* e as usize: a negative i64 wraps to 2^64 + e.
as_usize(e) == IF e >= 0 THEN USize(e) ELSE [two64 |-> 1, v |-> e]

\* The digits of usize::MAX = 18446744073709551615.
U64MaxDigits ==
  <<49, 56, 52, 52, 54, 55, 52, 52, 48, 55, 51, 55, 48, 57, 53, 53, 49, 54, 49, 53>>

\* str::parse::<usize>(): an optional '+', then one or more ASCII digits.
parse_usize(s) ==
  IF s = <<>> THEN ParseErr
  ELSE LET d == IF s[1] = 43 THEN Tail(s) ELSE s
       IN  IF d = <<>> \/ s = <<45>> THEN ParseErr
           ELSE IF \E i \in 1 .. Len(d) : ~IsDigit(d[i]) THEN ParseErr
           ELSE IF ~FitsI64(d, U64MaxDigits) THEN ParseErr
           ELSE [ok |-> TRUE, val |-> DigitsValue(d)]

\* impl TryFrom<RedisValue> for String.
String_try_from(r) ==
  IF r.t \in {"SimpleString", "BulkString"} THEN OkRes(r.s) ELSE Err(InvalidType)

\* impl TryFrom<&RedisValue> for ICount.
ICount_try_from(r) ==
  CASE r.t = "Int" -> OkRes(r.i)
    [] r.t = "SimpleString" ->
         IF parse_i64(r.s).ok THEN OkRes(parse_i64(r.s).val) ELSE Err(InvalidType)
    [] OTHER -> Err(InvalidType)

\* impl TryFrom<&RedisValue> for Count.
Count_try_from(r) ==
  CASE r.t = "Int" -> OkRes(as_usize(r.i))
    [] r.t = "SimpleString" ->
         IF parse_usize(r.s).ok THEN OkRes(USize(parse_usize(r.s).val)) ELSE Err(InvalidType)
    [] OTHER -> Err(InvalidType)

translate_string(start) ==
  CASE to_lowercase(start) = N_ping -> OkRes(Op("Pong", <<>>))
    [] to_lowercase(start) = N_keys -> OkRes(Op("Keys", <<>>))
    [] OTHER -> Err(UnknownOp)

all_strings(v) == \A i \in 1 .. Len(v) : v[i].t \in {"SimpleString", "BulkString"}

tails_as_strings(tail) ==
  IF ~all_strings(tail) THEN Err(InvalidType)
  ELSE OkRes([i \in 1 .. Len(tail) |-> tail[i].s])

verify_size_lower(v, min_size) ==
  IF Len(v) < min_size THEN Err(NotEnoughArgs(min_size)) ELSE OkRes(<<>>)

verify_size(v, size) ==
  IF Len(v) # size THEN Err(WrongNumberOfArgs(size)) ELSE OkRes(<<>>)

\* The array is the whole message, the command name first.
get_key_and_val(array) ==
  IF Len(array) < 3 THEN Err(WrongNumberOfArgs(3))
  ELSE Bind(String_try_from(array[2]), LAMBDA key :
       Bind(String_try_from(array[3]), LAMBDA val : OkRes(<<key, val>>)))

get_key_and_tail(array) ==
  IF Len(array) < 3 THEN Err(WrongNumberOfArgs(3))
  ELSE Bind(String_try_from(array[2]), LAMBDA set_key :
       Bind(tails_as_strings(SubSeq(array, 3, Len(array))), LAMBDA vals :
         OkRes(<<set_key, vals>>)))

\* The arms of translate_array's match on the lowercased command name.
arm_set(array) ==
  Bind(get_key_and_val(array), LAMBDA kv : OkRes(Op("Set", kv)))

arm_get(tail) ==
  Bind(verify_size(tail, 1), LAMBDA u :
  Bind(String_try_from(tail[1]), LAMBDA key : OkRes(Op("Get", <<key>>))))

arm_del(tail) ==
  Bind(verify_size_lower(tail, 1), LAMBDA u :
  Bind(tails_as_strings(tail), LAMBDA keys : OkRes(Op("Del", <<keys>>))))

arm_rename(tail) ==
  Bind(verify_size(tail, 2), LAMBDA u :
  Bind(String_try_from(tail[1]), LAMBDA key :
  Bind(String_try_from(tail[2]), LAMBDA val : OkRes(Op("Rename", <<key, val>>)))))

arm_exists(tail) ==
  Bind(verify_size_lower(tail, 1), LAMBDA u :
  Bind(tails_as_strings(tail), LAMBDA keys : OkRes(Op("Exists", <<keys>>))))

arm_sadd(array) ==
  Bind(get_key_and_tail(array), LAMBDA kt : OkRes(Op("SAdd", kt)))

arm_srem(array) ==
  Bind(get_key_and_tail(array), LAMBDA kt : OkRes(Op("SRem", kt)))

arm_smembers(tail) ==
  Bind(verify_size(tail, 1), LAMBDA u :
  Bind(String_try_from(tail[1]), LAMBDA key : OkRes(Op("SMembers", <<key>>))))

arm_scard(tail) ==
  Bind(verify_size(tail, 1), LAMBDA u :
  Bind(String_try_from(tail[1]), LAMBDA key : OkRes(Op("SCard", <<key>>))))

arm_sdiff(tail) ==
  Bind(verify_size_lower(tail, 2), LAMBDA u :
  Bind(tails_as_strings(tail), LAMBDA keys : OkRes(Op("SDiff", <<keys>>))))

arm_sunion(tail) ==
  Bind(verify_size_lower(tail, 2), LAMBDA u :
  Bind(tails_as_strings(tail), LAMBDA keys : OkRes(Op("SUnion", <<keys>>))))

arm_sinter(tail) ==
  Bind(verify_size_lower(tail, 2), LAMBDA u :
  Bind(tails_as_strings(tail), LAMBDA keys : OkRes(Op("SInter", <<keys>>))))

arm_sdiffstore(array) ==
  Bind(get_key_and_tail(array), LAMBDA kt : OkRes(Op("SDiffStore", kt)))

arm_sunionstore(array) ==
  Bind(get_key_and_tail(array), LAMBDA kt : OkRes(Op("SUnionStore", kt)))

arm_sinterstore(array) ==
  Bind(get_key_and_tail(array), LAMBDA kt : OkRes(Op("SInterStore", kt)))

arm_spop(tail) ==
  Bind(verify_size_lower(tail, 1), LAMBDA u :
  Bind(String_try_from(tail[1]), LAMBDA key :
    IF Len(tail) >= 2
      THEN Bind(Count_try_from(tail[2]), LAMBDA c : OkRes(Op("SPop", <<key, Some(c)>>)))
      ELSE OkRes(Op("SPop", <<key, None>>))))

arm_sismember(array) ==
  Bind(get_key_and_val(array), LAMBDA kv : OkRes(Op("SIsMember", kv)))

arm_smove(tail) ==
  Bind(verify_size(tail, 3), LAMBDA u :
  Bind(String_try_from(tail[1]), LAMBDA src :
  Bind(String_try_from(tail[2]), LAMBDA dest :
  Bind(String_try_from(tail[3]), LAMBDA member :
    OkRes(Op("SMove", <<src, dest, member>>))))))

arm_srandmember(tail) ==
  Bind(verify_size_lower(tail, 1), LAMBDA u :
  Bind(String_try_from(tail[1]), LAMBDA key :
    IF Len(tail) >= 2
      THEN Bind(ICount_try_from(tail[2]), LAMBDA c : OkRes(Op("SRandMembers", <<key, Some(c)>>)))
      ELSE OkRes(Op("SRandMembers", <<key, None>>))))

arm_lpush(array) ==
  Bind(get_key_and_tail(array), LAMBDA kt : OkRes(Op("LPush", kt)))

arm_lpushx(tail) ==
  Bind(verify_size(tail, 2), LAMBDA u :
  Bind(String_try_from(tail[1]), LAMBDA key :
  Bind(String_try_from(tail[2]), LAMBDA val : OkRes(Op("LPushX", <<key, val>>)))))

arm_llen(tail) ==
  Bind(verify_size(tail, 1), LAMBDA u :
  Bind(String_try_from(tail[1]), LAMBDA key : OkRes(Op("LLen", <<key>>))))

arm_lpop(tail) ==
  Bind(verify_size(tail, 1), LAMBDA u :
  Bind(String_try_from(tail[1]), LAMBDA key : OkRes(Op("LPop", <<key>>))))

\* A linsert arm that is not the lpop arm.
arm_linsert_as_llen(tail) == arm_llen(tail)

\* The linsert arm is the lpop arm again: it builds Ops::LPop.
arm_linsert(tail) ==
  Bind(verify_size(tail, 1), LAMBDA u :
  Bind(String_try_from(tail[1]), LAMBDA key : OkRes(Op("LPop", <<key>>))))

\* The match of translate_array on the lowercased head.
translate_arms(name, array, tail) ==
      CASE name = N_set -> arm_set(array)
        [] name = N_get -> arm_get(tail)
        [] name = N_del -> arm_del(tail)
        [] name = N_rename -> arm_rename(tail)
        [] name = N_exists -> arm_exists(tail)
        [] name = N_sadd -> arm_sadd(array)
        [] name = N_srem -> arm_srem(array)
        [] name = N_smembers -> arm_smembers(tail)
        [] name = N_scard -> arm_scard(tail)
        [] name = N_sdiff -> arm_sdiff(tail)
        [] name = N_sunion -> arm_sunion(tail)
        [] name = N_sinter -> arm_sinter(tail)
        [] name = N_sdiffstore -> arm_sdiffstore(array)
        [] name = N_sunionstore -> arm_sunionstore(array)
        [] name = N_sinterstore -> arm_sinterstore(array)
        [] name = N_spop -> arm_spop(tail)
        [] name = N_sismember -> arm_sismember(array)
        [] name = N_smove -> arm_smove(tail)
        [] name = N_srandmember -> arm_srandmember(tail)
        [] name = N_lpush -> arm_lpush(array)
        [] name = N_lpushx -> arm_lpushx(tail)
        [] name = N_llen -> arm_llen(tail)
        [] name = N_lpop -> arm_lpop(tail)
        [] name = N_linsert -> arm_linsert(tail)
        [] OTHER -> Err(UnknownOp)

translate_array(array) ==
  IF array = <<>> THEN Err(Noop)
  ELSE Bind(String_try_from(array[1]), LAMBDA head :
         IF translate_string(head).ok THEN translate_string(head)
         ELSE translate_arms(to_lowercase(head), array, Tail(array)))

\* A translate whose catch-all arm answers Noop.
translate_noop_default(v) ==
  CASE v.t \in {"SimpleString", "BulkString"} -> translate_string(v.s)
    [] v.t = "Array" -> translate_array(v.l)
    [] OTHER -> Err(Noop)

translate(v) ==
  CASE v.t \in {"SimpleString", "BulkString"} -> translate_string(v.s)
    [] v.t = "Array" -> translate_array(v.l)
    [] OTHER -> Err(UnknownOp)

\* ------------------------------------------ the translator's specification

LowerNames ==
  {N_ping, N_keys, N_set, N_get, N_del, N_rename, N_exists, N_sadd, N_srem,
   N_smembers, N_scard, N_sdiff, N_sunion, N_sinter, N_sdiffstore,
   N_sunionstore, N_sinterstore, N_spop, N_sismember, N_smove, N_srandmember,
   N_lpush, N_lpushx, N_llen, N_lpop, N_linsert, N_hset, N_foo}

\* The first element of an array: every name as a bulk string, some names in
\* upper case, with letters outside ASCII or as a simple string, and a head
\* that is not a string.
Heads ==
  {BulkString(n) : n \in LowerNames}
    \cup {BulkString(n) : n \in UpperNames \cup {N_HSET, N_LINSERT}}
    \cup {BulkString(n) : n \in NonAsciiNames \cup {N_KelvinEYS}}
    \cup {SimpleString(N_get), SimpleString(N_lpop), IntVal(1)}

\* The elements after the head.
ArgVals ==
  {BulkString(N_k), SimpleString(N_2), BulkString(N_2), IntVal(2), IntVal(-1),
   SimpleString(N_minus1)}

\* The tails of at most max elements.
Tails(max) == UNION {[1 .. n -> ArgVals] : n \in 0 .. max}

\* The values given to translate: arrays with a tail of at most max elements,
\* the empty array, and values that are no array.
WireInputs(max) ==
  {WireArray(<<>>)}
    \cup {WireArray(<<h>> \o t) : h \in Heads, t \in Tails(max)}
    \cup {SimpleString(N_ping), BulkString(N_KEYS), BulkString(N_KelvinEYS), BulkString(N_get),
          SimpleString(N_foo), IntVal(1), WireError(N_foo), NullArray, NullBulkString}

InitTranslate ==
  /\ hashes = EmptyHashes
  /\ lock = [writer |-> 0, readers |-> {}]
  /\ pc = [p \in Procs |-> "idle"]
  /\ op = [p \in Procs |-> NoOp]
  /\ ret = [p \in Procs |-> NoReturn]
  /\ curr_value = [p \in Procs |-> 0]
  /\ pre = [p \in Procs |-> NoPre]
  /\ lastw = NoWrite
  /\ rv \in WireInputs(MaxTail)
  /\ translated = NotTranslated

\* One call of translate on the received value.
Translate ==
  /\ translated = NotTranslated
  /\ translated' = translate(rv)
  /\ UNCHANGED <<hashes, lock, pc, op, ret, curr_value, pre, lastw, rv>>

NextTranslate == Translate

SpecTranslate == InitTranslate /\ [][NextTranslate]_vars

\* ------------------------------------------------------------ properties

\* The words of the claims, stated over the container.
Present(h, k, f) == k \in DOMAIN h /\ f \in DOMAIN h[k]
FieldCount(h, k) == IF k \in DOMAIN h THEN Cardinality(DOMAIN h[k]) ELSE 0
AllDigits(d) == Len(d) >= 1 /\ \A i \in 1 .. Len(d) : IsDigit(d[i])
\* v is the decimal text of the integer n: its digits without leading
\* zeros, after a '-' when n is negative.
IsDecimalOf(v, n) ==
  LET d == IF n < 0 THEN (IF v # <<>> /\ v[1] = 45 THEN Tail(v) ELSE <<>>) ELSE v
  IN  /\ AllDigits(d)
      /\ Len(d) > 1 => d[1] # 48
      /\ DigitsValue(d) = (IF n < 0 THEN 0 - n ELSE n)
\* v is the text of a base-10 integer: digits after an optional sign.
IsBase10Integer(v) ==
  /\ v # <<>>
  /\ AllDigits(IF v[1] \in {43, 45} THEN Tail(v) ELSE v)
IsMutating(c) == c.t \in {"HSet", "HMSet", "HIncrBy", "HDel", "HSetNX"}
IsReadOnly(c) ==
  c.t \in {"HGet", "HExists", "HGetAll", "HMGet", "HKeys", "HLen", "HVals", "HStrLen"}
\* Client p is inside its container access: it holds the lock.
Inside(p) == pc[p] \in {"locked", "loaded"}
Returned(p, t) == pc[p] = "done" /\ op[p].t = t
\* The write that last finished before p took the lock was command t on the
\* key and field of p's command.
After(p, t) ==
  /\ pre[p].lastw.cmd.t = t
  /\ pre[p].lastw.cmd.key = op[p].key
  /\ IF "field" \in DOMAIN pre[p].lastw.cmd
     THEN pre[p].lastw.cmd.field = op[p].field
     ELSE pre[p].lastw.cmd.fields = <<op[p].field>>

\* C1: when every one of the NumProcs concurrent HIncrBy(k, f, 1) calls has
\* returned, each returned Ok and the field, which started absent or at "0",
\* holds the decimal text of NumProcs; and while one call is between its
\* read and its store no other call is inside the container.
C1_NoLostIncrement ==
  /\ (\A p \in Procs : pc[p] = "done") =>
       /\ \A p \in Procs : ret[p] = Ok
       /\ Present(hashes, K1, F1)
       /\ IsDecimalOf(hashes[K1][F1], NumProcs)
  /\ \A p, q \in Procs : (pc[p] = "loaded" /\ q # p) => ~Inside(q)

C1_Witness ==
  /\ \A p \in Procs : pc[p] = "done"
  /\ Present(hashes, K1, F1)

\* C2: a mutating command is never inside its container access together
\* with any other hash command; two read-only commands may be inside
\* together (the witness, after some write has been through).
C2_WriterExcludesAll ==
  \A p, q \in Procs :
    (p # q /\ Inside(p) /\ Inside(q)) => (IsReadOnly(op[p]) /\ IsReadOnly(op[q]))

C2_Witness ==
  \E p, q \in Procs :
    /\ p # q
    /\ Inside(p) /\ Inside(q)
    /\ IsReadOnly(op[p]) /\ IsReadOnly(op[q])
    /\ IsMutating(lastw.cmd)

\* C3: an HIncrBy that found its field holding something that is not a
\* base-10 integer has returned Error("Bad Type!") and the container is what
\* it was before the call.
C3_BadTypeAndUnchanged ==
  \A p \in Procs :
    (/\ op[p].t = "HIncrBy"
     /\ pc[p] \in {"loaded", "done", "panicked"}
     /\ Present(pre[p].hashes, op[p].key, op[p].field)
     /\ ~IsBase10Integer(pre[p].hashes[op[p].key][op[p].field]))
    => (/\ pc[p] = "done"
        /\ ret[p] = Error(BadType)
        /\ hashes = pre[p].hashes)

\* C4: HIncrBy never panics, whatever bytes the field holds.
C4_HIncrByNeverPanics == \A p \in Procs : pc[p] # "panicked"

\* C5: an HGet(k, f) that follows HSet(k, f, v) with no write in between
\* returns StringRes(v).
C5_SetThenGet ==
  \A p \in Procs :
    (Returned(p, "HGet") /\ After(p, "HSet")) => ret[p] = StringRes(pre[p].lastw.cmd.value)

\* The HSet overwrote an earlier value of the field.
C5_Witness ==
  \E p \in Procs :
    /\ Returned(p, "HGet") /\ After(p, "HSet")
    /\ ~pre[p].lastw.fresh
    /\ ret[p].t = "StringRes"

\* C6: HDel(k, [f]) right after HSet(k, f, v) returns 1 and lowers the field
\* count, which is what HLen returns, by exactly 1; an HGet(k, f) after
\* HDel(k, [f]) returns Nil and an HExists(k, f) returns 0.
C6_DelAfterSet ==
  \A p \in Procs :
    /\ Returned(p, "HLen") => ret[p] = IntRes(FieldCount(hashes, op[p].key))
    /\ (Returned(p, "HDel") /\ Len(op[p].fields) = 1
          /\ pre[p].lastw.cmd.t = "HSet"
          /\ pre[p].lastw.cmd.key = op[p].key
          /\ pre[p].lastw.cmd.field = op[p].fields[1])
       => (/\ ret[p] = IntRes(1)
           /\ FieldCount(hashes, op[p].key) = FieldCount(pre[p].hashes, op[p].key) - 1)
    /\ (Returned(p, "HGet") /\ After(p, "HDel")) => ret[p] = Nil
    /\ (Returned(p, "HExists") /\ After(p, "HDel")) => ret[p] = IntRes(0)

\* The HDel removed the field from a hash that held another field too.
C6_Witness ==
  \E p \in Procs :
    /\ Returned(p, "HGet") /\ After(p, "HDel")
    /\ pre[p].lastw.ret = IntRes(1)
    /\ FieldCount(hashes, op[p].key) = 1

\* C7: HIncrBy(k, f, n) on an absent field returns Ok and stores the decimal
\* text of n; an HIncrBy(k, f, m) that follows it returns Ok and stores the
\* decimal text of n + m.
C7_IncrFromAbsent ==
  \A p \in Procs :
    Returned(p, "HIncrBy") =>
      /\ ~Present(pre[p].hashes, op[p].key, op[p].field) =>
           /\ ret[p] = Ok
           /\ Present(hashes, op[p].key, op[p].field)
           /\ IsDecimalOf(hashes[op[p].key][op[p].field], op[p].count)
      /\ (After(p, "HIncrBy") /\ pre[p].lastw.fresh) =>
           /\ ret[p] = Ok
           /\ Present(hashes, op[p].key, op[p].field)
           /\ IsDecimalOf(hashes[op[p].key][op[p].field],
                          pre[p].lastw.cmd.count + op[p].count)

C7_Witness ==
  \E p \in Procs :
    /\ Returned(p, "HIncrBy") /\ After(p, "HIncrBy") /\ pre[p].lastw.fresh
    /\ pre[p].lastw.cmd.count + op[p].count # 0

\* C8: HSetNX(k, f, v) on an absent field returns 1 and stores v; every
\* HSetNX on (k, f) after that one returns 0 and the field keeps the value
\* of the first call; an HSetNX that returns 0 leaves the container as it was.
C8_SetNXOnce ==
  \A p \in Procs :
    Returned(p, "HSetNX") =>
      /\ ~Present(pre[p].hashes, op[p].key, op[p].field) =>
           /\ ret[p] = IntRes(1)
           /\ Present(hashes, op[p].key, op[p].field)
           /\ hashes[op[p].key][op[p].field] = op[p].value
      /\ (After(p, "HSetNX") /\ pre[p].lastw.ret = IntRes(1)) =>
           /\ ret[p] = IntRes(0)
           /\ Present(hashes, op[p].key, op[p].field)
           /\ hashes[op[p].key][op[p].field] = pre[p].lastw.cmd.value
      /\ ret[p] = IntRes(0) => hashes = pre[p].hashes

\* A later HSetNX with another value.
C8_Witness ==
  \E p \in Procs :
    /\ Returned(p, "HSetNX") /\ After(p, "HSetNX")
    /\ pre[p].lastw.ret = IntRes(1)
    /\ op[p].value # pre[p].lastw.cmd.value

\* C9: HGetAll(k) returns the empty list when k is absent; otherwise a list
\* of twice the field count in which every field stands at exactly one pair
\* position, followed by its value.
C9_GetAllPairs ==
  \A p \in Procs :
    Returned(p, "HGetAll") =>
      IF op[p].key \notin DOMAIN hashes THEN ret[p] = MultiStringRes(<<>>)
      ELSE /\ ret[p].t = "MultiStringRes"
           /\ Len(ret[p].l) = 2 * FieldCount(hashes, op[p].key)
           /\ \A f \in DOMAIN hashes[op[p].key] :
                /\ Cardinality({i \in 1 .. Len(ret[p].l) :
                                  i % 2 = 1 /\ ret[p].l[i] = f}) = 1
                /\ \A i \in 1 .. Len(ret[p].l) :
                     (i % 2 = 1 /\ ret[p].l[i] = f) =>
                       (i + 1 <= Len(ret[p].l) /\ ret[p].l[i + 1] = hashes[op[p].key][f])

C9_Witness ==
  \E p \in Procs :
    /\ Returned(p, "HGetAll")
    /\ FieldCount(hashes, op[p].key) = 2
    /\ Len(ret[p].l) = 4

\* C10: HMGet(k, fields) returns an array with one result per requested
\* field, in the requested order: the value of the field when it is in the
\* hash at k, Nil when it is not or when k is absent.
C10_MGetPositions ==
  \A p \in Procs :
    Returned(p, "HMGet") =>
      /\ ret[p].t = "Array"
      /\ Len(ret[p].l) = Len(op[p].fields)
      /\ \A i \in 1 .. Len(op[p].fields) :
           ret[p].l[i] = IF Present(hashes, op[p].key, op[p].fields[i])
                         THEN StringRes(hashes[op[p].key][op[p].fields[i]])
                         ELSE Nil

\* A present field, then an absent one.
C10_Witness ==
  \E p \in Procs :
    /\ Returned(p, "HMGet")
    /\ Len(op[p].fields) = 2
    /\ Present(hashes, op[p].key, op[p].fields[1])
    /\ ~Present(hashes, op[p].key, op[p].fields[2])
    /\ ret[p].l[2] = Nil


\* ------------------------------------------- properties of the translator

Translated == translated # NotTranslated
IsString(r) == r.t \in {"SimpleString", "BulkString"}
\* The received value is an array whose head names the command n in any case.
Command(n) ==
  /\ rv.t = "Array"
  /\ rv.l # <<>>
  /\ IsString(rv.l[1])
  /\ to_lowercase(rv.l[1].s) = n
TailLen == Len(rv.l) - 1

\* C11: translate of ["HSET", "k"] fails with the wrong-number-of-arguments
\* error and not with unknown-operation.
C11_HSetWrongNumber ==
  Translated /\ rv = WireArray(<<BulkString(N_HSET), BulkString(N_k)>>)
    => /\ ~translated.ok
       /\ translated.v.t = "WrongNumberOfArgs"
       /\ translated # Err(UnknownOp)

\* C12: translate of the empty array fails with Noop, which is not UnknownOp,
\* and no other input of any shape fails with Noop.
C12_NoopOnlyForEmpty ==
  Translated
    => /\ (rv = WireArray(<<>>)) <=> (translated = Err(Noop))
       /\ Noop # UnknownOp
C12_Witness == Translated /\ rv = WireArray(<<>>) /\ translated = Err(Noop)

\* The commands of a fixed arity, each with its required tail length.
FixedArity ==
  {<<N_get, 1>>, <<N_set, 2>>, <<N_rename, 2>>, <<N_smembers, 1>>, <<N_scard, 1>>,
   <<N_sismember, 2>>, <<N_smove, 3>>, <<N_lpushx, 2>>, <<N_llen, 1>>, <<N_lpop, 1>>}

\* C13: a fixed-arity command whose tail is shorter or longer than N fails
\* with WrongNumberOfArgs(N), and succeeds only with a tail of length N.
C13_FixedArity ==
  Translated
    => \A c \in FixedArity :
         Command(c[1])
           => /\ TailLen # c[2] => translated = Err(WrongNumberOfArgs(c[2]))
              /\ translated.ok => TailLen = c[2]

\* The commands of a minimum arity, each with its minimum tail length.
MinimumArity ==
  {<<N_del, 1>>, <<N_exists, 1>>, <<N_sdiff, 2>>, <<N_sunion, 2>>, <<N_sinter, 2>>,
   <<N_spop, 1>>, <<N_srandmember, 1>>, <<N_sadd, 2>>, <<N_srem, 2>>, <<N_lpush, 2>>,
   <<N_sdiffstore, 2>>, <<N_sunionstore, 2>>, <<N_sinterstore, 2>>}

\* C14: a minimum-arity command whose tail is shorter than N fails with
\* NotEnoughArgs(N) and with no other kind of error.
C14_MinimumArity ==
  Translated
    => \A c \in MinimumArity :
         Command(c[1]) /\ TailLen < c[2] => translated = Err(NotEnoughArgs(c[2]))

\* The count a typed command carries for the integer n.
Carried(name, n) == IF name = N_spop THEN Some(USize(n)) ELSE Some(n)

\* C15: spop and srandmember accept a count that is a native integer or a
\* simple or bulk string parsing as a base-10 integer, and carry exactly that
\* integer; any other count fails with InvalidType.
C15_CountCoercion ==
  Translated
    => \A name \in {N_spop, N_srandmember} :
         Command(name) /\ TailLen >= 2 /\ IsString(rv.l[2])
           => LET c == rv.l[3]
              IN  CASE c.t = "Int" ->
                         translated.ok /\ translated.v.args[2] = Carried(name, c.i)
                    [] IsString(c) /\ parse_i64(c.s).ok ->
                         /\ translated.ok
                         /\ translated.v.args[2] = Carried(name, parse_i64(c.s).val)
                    [] OTHER -> translated = Err(InvalidType)

\* C20: translate of an array named linsert is translate of the same array
\* named lpop: LPop(key) for a tail of one string, WrongNumberOfArgs(1) for a
\* tail of any other length, InvalidType for a single argument that is no string.
C20_LInsertIsLPop ==
  Translated /\ Command(N_linsert)
    => /\ translated = translate(WireArray(<<[rv.l[1] EXCEPT !.s = N_lpop]>> \o Tail(rv.l)))
       /\ TailLen # 1 => translated = Err(WrongNumberOfArgs(1))
       /\ TailLen = 1 /\ IsString(rv.l[2]) => translated = OkRes(Op("LPop", <<rv.l[2].s>>))
       /\ TailLen = 1 /\ ~IsString(rv.l[2]) => translated = Err(InvalidType)
C20_Witness ==
  /\ Translated
  /\ rv = WireArray(<<BulkString(N_LINSERT), BulkString(N_k)>>)
  /\ translated = OkRes(Op("LPop", <<N_k>>))


\* ------------------------------------- properties of the hash engine, II

\* Client p, holding the lock for a mutating command on a key that is not in
\* the container, takes the step of its arm.
MutatesAbsent(p) ==
  /\ pc[p] = "locked"
  /\ IsMutating(op[p])
  /\ op[p].key \notin DOMAIN hashes
  /\ pc'[p] # "locked"
\* While a mutating command is inside its access no read-only command is.
ReaderSeesWhole ==
  \A p, q \in Procs :
    Inside(p) /\ IsMutating(op[p]) /\ q # p => ~(Inside(q) /\ IsReadOnly(op[q]))

\* C16 as stated: every mutating command (HSet, HMSet, HIncrBy, HSetNX, HDel)
\* on an absent key leaves the key present, and no reader is inside while a
\* mutation is partly applied.
C16_AbsentKeyCreated ==
  /\ [][\A p \in Procs : MutatesAbsent(p) => op[p].key \in DOMAIN hashes']_vars
  /\ []ReaderSeesWhole

\* C16 amended: HSet, HMSet, HIncrBy and HSetNX on an absent key leave the
\* key present, from the first step of the command to its return; HDel on an
\* absent key returns 0 and leaves the container as it was, the key absent;
\* no reader is inside while a mutation is partly applied.
C16_AbsentKeyCreatedUnlessHDel ==
  /\ [][\A p \in Procs :
          /\ MutatesAbsent(p)
               => IF op[p].t = "HDel"
                  THEN hashes' = hashes /\ pc'[p] = "done" /\ ret'[p] = IntRes(0)
                  ELSE op[p].key \in DOMAIN hashes'
          /\ pc[p] = "loaded" /\ pc'[p] # "loaded"
               => op[p].key \in DOMAIN hashes /\ op[p].key \in DOMAIN hashes']_vars
  /\ []ReaderSeesWhole
\* An HIncrBy has materialized a key no write had touched and has not stored
\* its field yet, while another client is between calls.
C16_Witness ==
  \E p, q \in Procs :
    /\ q # p
    /\ pc[p] = "loaded"
    /\ hashes[op[p].key] = EmptyHash
    /\ lastw = NoWrite
    /\ pc[q] = "idle"


\* Client p's read-only command has returned.
ReadDone(p) == pc[p] = "done" /\ IsReadOnly(op[p])
\* What a read-only command returns for a key that is not there.
EmptyOutcome(c) ==
  CASE c.t = "HGet" -> Nil
    [] c.t \in {"HExists", "HLen", "HStrLen"} -> IntRes(0)
    [] c.t = "HGetAll" -> MultiStringRes(<<>>)
    [] c.t \in {"HKeys", "HVals"} -> Array(<<>>)
    [] c.t = "HMGet" -> Array([i \in 1 .. Len(c.fields) |-> Nil])

\* C17 as stated: a read-only command leaves the container as it found it
\* and never returns an error; on an absent key it creates no entry and
\* returns Nil, 0, or an empty list or array.
C17_ReadOnlyEmptyOutcome ==
  \A p \in Procs :
    ReadDone(p)
      => /\ hashes = pre[p].hashes
         /\ ret[p].t # "Error"
         /\ op[p].key \notin DOMAIN pre[p].hashes
              => /\ op[p].key \notin DOMAIN hashes
                 /\ \/ ret[p] = Nil
                    \/ ret[p] = IntRes(0)
                    \/ ret[p] = MultiStringRes(<<>>)
                    \/ ret[p] = Array(<<>>)

\* C17 amended: the same, except that HMGet on an absent key returns an
\* array of one Nil for each requested field.
C17_ReadOnlyFrame ==
  \A p \in Procs :
    ReadDone(p)
      => /\ hashes = pre[p].hashes
         /\ ret[p].t # "Error"
         /\ op[p].key \notin DOMAIN pre[p].hashes
              => /\ op[p].key \notin DOMAIN hashes
                 /\ ret[p] = EmptyOutcome(op[p])
C17_Witness ==
  \E p \in Procs :
    /\ ReadDone(p)
    /\ op[p].t = "HMGet"
    /\ Len(op[p].fields) = 2
    /\ op[p].key \notin DOMAIN pre[p].hashes
    /\ hashes = EmptyHashes
    /\ ret[p] = Array(<<Nil, Nil>>)


\* The write that last finished before p took the lock was an HDel on p's
\* key that removed a field, and it left no field behind.
EmptiedBefore(p) ==
  /\ pre[p].lastw.cmd.t = "HDel"
  /\ pre[p].lastw.cmd.key = op[p].key
  /\ pre[p].lastw.ret.n >= 1
  /\ FieldCount(pre[p].hashes, op[p].key) = 0
KeyStaysEmpty ==
  \A p \in Procs :
    /\ Returned(p, "HDel") /\ op[p].key \in DOMAIN pre[p].hashes
         => /\ op[p].key \in DOMAIN hashes
            /\ ret[p].n = FieldCount(pre[p].hashes, op[p].key) => hashes[op[p].key] = EmptyHash
    /\ pc[p] = "done" /\ EmptiedBefore(p)
         => /\ pre[p].hashes[op[p].key] = EmptyHash
            /\ op[p].t = "HLen" => ret[p] = IntRes(0)
            /\ op[p].t = "HGetAll" => ret[p] = MultiStringRes(<<>>)

\* The container of a client inside or just out of a call holds every key
\* it held when the client took the lock.
KeysKept == \A p \in Procs : pc[p] # "idle" => DOMAIN pre[p].hashes \subseteq DOMAIN hashes

\* C18: no command removes a top-level key from the container; when HDel
\* removes the last field of a hash the key stays, attached to an empty
\* map: HLen then returns 0 and HGetAll an empty list.
C18_KeysNeverShrink == KeysKept /\ KeyStaysEmpty
C18_Witness ==
  \E p \in Procs :
    /\ Returned(p, "HGetAll")
    /\ EmptiedBefore(p)
    /\ hashes[op[p].key] = EmptyHash
    /\ ret[p] = MultiStringRes(<<>>)


\* The hash at key k of the container h, empty when k is not there.
HashAt(h, k) == IF k \in DOMAIN h THEN h[k] ELSE EmptyHash

\* C19: HDel(k, fields) returns the number of distinct listed fields that
\* were in the hash at k before the call (0 when k is absent); afterwards the
\* hash has that many fields fewer, no listed field is in it and every
\* other field has the value it had.
C19_HDelCount ==
  \A p \in Procs :
    Returned(p, "HDel")
      => LET k == op[p].key
             listed == {op[p].fields[i] : i \in 1 .. Len(op[p].fields)}
             before == HashAt(pre[p].hashes, k)
             after == HashAt(hashes, k)
         IN  /\ ret[p] = IntRes(Cardinality(listed \cap DOMAIN before))
             /\ k \notin DOMAIN pre[p].hashes => ret[p] = IntRes(0)
             /\ FieldCount(hashes, k) = FieldCount(pre[p].hashes, k) - ret[p].n
             /\ listed \cap DOMAIN after = {}
             /\ \A f \in DOMAIN before \ listed : f \in DOMAIN after /\ after[f] = before[f]
\* HDel(k, [f, f]) on a hash holding f and another field returned 1.
C19_Witness ==
  \E p \in Procs :
    /\ Returned(p, "HDel")
    /\ op[p].fields = <<F1, F1>>
    /\ DOMAIN HashAt(pre[p].hashes, op[p].key) = {F1, F2}
    /\ ret[p] = IntRes(1)
    /\ DOMAIN hashes[op[p].key] = {F2}

====
